---- MODULE Spec2Model ----
(***************************************************************************)
(* iron-enum: runtime tagged unions.  The model follows the library source *)
(* (enumFactory, IronEnum, ResultInternal, OptionInternal).  A state holds  *)
(* the factory under use, the variant objects it has produced (a heap, so   *)
(* that object identity is observable), the record of the last call made    *)
(* on the library, and the promises of matchAsync calls still in flight.    *)
(***************************************************************************)
EXTENDS Integers, Sequences, FiniteSets, TLC

(* ------------------------------ bounds --------------------------------- *)
MaxObjs == 2

MaxPending == 1

(* --------------------------- JavaScript values ------------------------- *)
\* Every JavaScript value is a record of one shape, so that any two values
\* can be compared: k is the kind, s a string, t a tag name, n an object id.
Prim(x) == [k |-> "prim", s |-> x, t |-> "", n |-> 0]

Undef == [k |-> "undefined", s |-> "", t |-> "", n |-> 0]

JTrue == [k |-> "bool", s |-> "true", t |-> "", n |-> 0]

JFalse == [k |-> "bool", s |-> "false", t |-> "", n |-> 0]

JBool(b) == IF b THEN JTrue ELSE JFalse

\* a reference to variant object number i of the heap
Ref(i) == [k |-> "ref", s |-> "", t |-> "", n |-> i]

\* an Error object; s is the message's fixed text, t the name it quotes
Err(msg, name) == [k |-> "error", s |-> msg, t |-> name, n |-> 0]

\* a value that is no variant and no primitive of the model: what a
\* function of Object.prototype hands back
Other(what, v) == [k |-> "other", s |-> what, t |-> v.s, n |-> v.n]

\* a string whose text is x
Str(x) == [k |-> "string", s |-> x, t |-> "", n |-> 0]

\* String(v): the string form of a value; an Error reads "Error: " and
\* its message (t holds the prefix, s the message)
String(v) ==
    CASE v.k = "undefined" -> Str("undefined")
      [] v.k = "error" -> [Str(v.s) EXCEPT !.t = "Error: "]
      [] v.k = "ref" -> Str("[object Object]")
      [] v.k = "other" -> Str("[object Object]")
      [] OTHER -> Str(v.s)

\* v ?? d
Nullish(v, d) == IF v.k = "undefined" THEN d ELSE v

\* new Error(message) for a message string: a new object
NewError(message) == Err(message.s, message.t)

\* the truthiness of a value in a condition
Truthy(v) == v.k \notin {"undefined"} /\ v # JFalse

Ret(v) == [kind |-> "ret", val |-> v]

Throw(e) == [kind |-> "throw", val |-> e]

\* calling something that is not a function
NotCallable == Throw(Err("is not a function", ""))

(* ------------------------------ domains -------------------------------- *)
\* variant names the callers use; "constructor" is also a property that
\* every plain object inherits from Object.prototype
Tags == {"A", "B", "_", "constructor"}

Data == {Undef, Prim("d1")}

\* the property names of Object.prototype that are functions
ObjectProto == {"constructor", "toString", "valueOf", "hasOwnProperty"}

BUILTINS == {"toString", "valueOf", "inspect", "constructor"}

\* a missing property reads as undefined
None == "undefined"

\* the handler a caller writes under a key of a handler map: three
\* distinct functions with three distinct results
HandlerOf(key) ==
    CASE key \in {"A", "Ok", "Some"} -> "hA"
      [] key \in {"B", "Err", "None"} -> "hB"
      [] OTHER -> "h_"

\* the callbacks a caller passes to the guards: s1 and e1 return a value,
\* su and eu return nothing
\* the (success, failure) pairs a caller passes
GuardArgs == {<<None, None>>, <<"s1", "e1">>, <<"su", "eu">>, <<"s1", None>>, <<None, "e1">>}

\* what each caller-supplied function returns
UserResult(fn) ==
    CASE fn = "hA" -> Prim("rA")
      [] fn = "hB" -> Prim("rB")
      [] fn = "h_" -> Prim("r_")
      [] fn = "s1" -> Prim("rs")
      [] fn = "e1" -> Prim("re")
      [] fn = "fm" -> Prim("rm")
      [] fn = "fd" -> Prim("rd")
      [] fn = "pT" -> JTrue
      [] fn = "pF" -> JFalse
      [] fn = "fe" -> Prim("rf")
      [] fn = "av" -> Prim("rv")
      [] OTHER -> Undef

\* the payloads a caller hands to a constructor: a Result may also carry
\* an Error object
\* (n = 1 marks the object the caller built, which no other Error is)
Boom == [Err("boom", "") EXCEPT !.n = 1]

Payloads(adapter) == IF adapter = "Result" THEN Data \cup {Boom} ELSE Data

\* the defaults a caller passes to unwrap_or
Defaults == {Undef, Prim("x1")}

\* the errors a caller passes to ok_or
ErrArgs == {Prim("e1"), Boom}

\* the caller's functions that throw instead of returning, and what each
\* throws: an Error object, or a value that is no Error
Throwers == {"tB", "tS"}

Thrown(fn) == IF fn = "tB" THEN Boom ELSE Prim("nope")

\* the caller's async functions whose promise rejects, and the reason
Rejects == {"aB", "aS"}

Rejection(fn) == IF fn = "aB" THEN Boom ELSE Prim("nope")

KeyLists == {<<>>, <<"A", "B">>, <<"A", "_">>, <<"constructor", "B">>}

\* IronEnum's args: no argument at all, or { keys }
FactoryArgs == {[given |-> FALSE, keys |-> <<>>]} \cup {[given |-> TRUE, keys |-> ks] : ks \in KeyLists}

Range(s) == {s[i] : i \in 1..Len(s)}

(* ------------------------------ factories ------------------------------ *)
\* IronEnum that takes the keyed fast path whenever a key list is given,
\* the empty one included
IronEnumAnyListKeyed(args) ==
    [given |-> args.given,
     keys |-> args.keys,
     keyed |-> args.given,
     adapter |-> "none"]

\* IronEnum(args): the keyed fast path is taken when keys?.length is truthy,
\* otherwise the Proxy is built.  The closure keeps `keys` for parse.
IronEnum(args) ==
    [given |-> args.given,
     keys |-> args.keys,
     keyed |-> args.given /\ Len(args.keys) > 0,
     adapter |-> "none"]

\* ResultInternal / OptionInternal: a keyed IronEnum wrapped in a plain
\* object { _, Ok, Err } / { _, Some, None }
ResultKeys == <<"Err", "Ok">>

OptionKeys == <<"None", "Some">>

ResultInner == IronEnum([given |-> TRUE, keys |-> ResultKeys])

OptionInner == IronEnum([given |-> TRUE, keys |-> OptionKeys])

ResultInternal == [ResultInner EXCEPT !.adapter = "Result"]

OptionInternal == [OptionInner EXCEPT !.adapter = "Option"]

Factories == {IronEnum(a) : a \in FactoryArgs} \cup {ResultInternal, OptionInternal}

(* ------------------------------- state --------------------------------- *)
VARIABLES factory, heap, last, pend

vars == <<factory, heap, last, pend>>

\* enumFactory without its guard on the reserved name
enumFactoryNoGuard(h, tag, data, instance) ==
    [heap |-> Append(h, [tag |-> tag, data |-> data, instance |-> instance,
                         ctag |-> tag, cdata |-> data, self |-> Len(h) + 1,
                         ext |-> "none"]),
     out |-> Ret(Ref(Len(h) + 1))]

\* enumFactory: the reserved name is refused before anything is built;
\* otherwise a new object is allocated whose methods close over tag, data
\* and self (the object itself).
enumFactory(h, tag, data, instance) ==
    IF tag = "_"
    THEN [heap |-> h, out |-> Throw(Err("'_' is reserved as a fallback key.", ""))]
    ELSE [heap |-> Append(h, [tag |-> tag, data |-> data, instance |-> instance,
                              ctag |-> tag, cdata |-> data, self |-> Len(h) + 1,
                              ext |-> "none"]),
          out |-> Ret(Ref(Len(h) + 1))]

\* parse without the membership test
parseNoCheck(h, f, wire) ==
    enumFactory(h, wire.tag, wire.data, [f EXCEPT !.adapter = "none"])

\* parse that tests membership whether or not a key list was given
parseAlwaysChecks(h, f, wire) ==
    IF wire.tag \notin Range(f.keys)
    THEN [heap |-> h, out |-> Throw(Err("Unexpected variant", wire.tag))]
    ELSE enumFactory(h, wire.tag, wire.data, [f EXCEPT !.adapter = "none"])

\* parse of IronEnum: membership is checked only when keys?.length is truthy
parse(h, f, wire) ==
    IF Len(f.keys) > 0 /\ f.given /\ wire.tag \notin Range(f.keys)
    THEN [heap |-> h, out |-> Throw(Err("Unexpected variant", wire.tag))]
    ELSE enumFactory(h, wire.tag, wire.data, [f EXCEPT !.adapter = "none"])

\* toJSON that loses the payload
toJSONNoData(obj) == [tag |-> obj.ctag, data |-> Undef]

\* toJSON: () => ({ tag, data }) over the closed-over tag and data
toJSON(obj) == [tag |-> obj.ctag, data |-> obj.cdata]

\* Object.assign onto one object that every constructor call shares
ObjectAssignShared(h, id, ext) ==
    [heap |-> [h EXCEPT ![1].ext = IF id = 1 THEN ext ELSE "shared"], out |-> Ret(Ref(id))]

\* Object.assign(base, methods): the adapter methods are added to the very
\* object enumFactory returned, and that object is returned
ObjectAssign(h, id, ext) ==
    [heap |-> [h EXCEPT ![id].ext = ext], out |-> Ret(Ref(id))]

\* OkCtor / ErrCtor / SomeCtor / NoneCtor: the base variant comes from the
\* inner keyed factory, then the adapter methods are assigned onto it.
\* NoneCtor takes no argument, so its payload is undefined.
adapterCtor(h, f, name, value) ==
    LET inner == [f EXCEPT !.adapter = "none"]
        base == enumFactory(h, name, IF name = "None" THEN Undef ELSE value, inner)
    IN ObjectAssign(base.heap, base.out.val.n, f.adapter)

\* What reading property `prop` of a factory yields.  Keyed factory: the
\* constructors assigned in the loop over keys (assigned after `_`, so a
\* key named "_" replaces the utilities), then `_`, then what a plain
\* object inherits.  Proxy: the get trap.  Adapter factory: { _, Ok, Err }.
Get(f, prop) ==
    IF f.adapter # "none"
    THEN IF prop \in Range(f.keys) THEN [kind |-> "adapterCtor", name |-> prop]
         ELSE IF prop = "_" THEN [kind |-> "utils", name |-> prop]
         ELSE IF prop \in ObjectProto THEN [kind |-> "builtin", name |-> prop]
         ELSE [kind |-> "undefined", name |-> prop]
    ELSE IF f.keyed
    THEN IF prop \in Range(f.keys) THEN [kind |-> "ctor", name |-> prop]
         ELSE IF prop = "_" THEN [kind |-> "utils", name |-> prop]
         ELSE IF prop \in ObjectProto THEN [kind |-> "builtin", name |-> prop]
         ELSE [kind |-> "undefined", name |-> prop]
    ELSE IF prop = "_" THEN [kind |-> "utils", name |-> prop]
         ELSE IF prop \in BUILTINS
         THEN IF prop \in ObjectProto THEN [kind |-> "builtin", name |-> prop]
              ELSE [kind |-> "undefined", name |-> prop]
         ELSE [kind |-> "ctor", name |-> prop]

\* constructors of the keyed fast path that drop their argument
CallPropKeyedNoArg(h, f, prop, data) ==
    LET g == Get(f, prop)
    IN CASE g.kind = "ctor" -> enumFactory(h, g.name, IF f.keyed THEN Undef ELSE data, f)
         [] g.kind = "adapterCtor" -> adapterCtor(h, f, g.name, data)
         [] g.kind = "builtin" -> [heap |-> h, out |-> Ret(Other(g.name, data))]
         [] OTHER -> [heap |-> h, out |-> NotCallable]

\* F[prop](data): calling what Get yields
CallProp(h, f, prop, data) ==
    LET g == Get(f, prop)
    IN CASE g.kind = "ctor" -> enumFactory(h, g.name, data, f)
         [] g.kind = "adapterCtor" -> adapterCtor(h, f, g.name, data)
         [] g.kind = "builtin" -> [heap |-> h, out |-> Ret(Other(g.name, data))]
         [] OTHER -> [heap |-> h, out |-> NotCallable]

\* F._.parse(wire): parse is reached through the `_` property
CallParse(h, f, wire) ==
    IF Get(f, "_").kind = "utils"
    THEN parse(h, f, wire)
    ELSE [heap |-> h, out |-> NotCallable]

\* the property names a caller tries on a factory
Props(f) == IF f.adapter = "none" THEN Tags ELSE Range(f.keys) \cup {"_", "A"}

\* the wire objects that come from outside
Wires(f) == [tag : Props(f), data : {Prim("d1")}]

\* the keys a caller passes to the guards
GuardKeys(f) == IF f.adapter = "none" THEN {"A", "B"} ELSE Range(f.keys)

\* the keys a caller writes in a handler map for the values of a factory
MapKeys(f) == IF f.adapter = "none" THEN {"A", "B", "_"} ELSE Range(f.keys) \cup {"_"}

HandlerMaps(f) == {m \in [MapKeys(f) -> {"hA", "hB", "h_", None}] :
                      \A key \in MapKeys(f) : m[key] \in {HandlerOf(key), None}}

(* ------------------------------ dispatch ------------------------------- *)
\* callbacks[key] on a handler map written as an object literal: the own
\* property if the caller wrote one, else what the literal inherits from
\* Object.prototype, else undefined
Lookup(callbacks, key) ==
    IF key \in DOMAIN callbacks /\ callbacks[key] # None THEN callbacks[key]
    ELSE IF key \in ObjectProto THEN "Object"
    ELSE None

\* fn(args) for a function value; the call is logged.  Object(x) boxes x.
Invoke(fn, args) ==
    [out |-> CASE fn = "Object" -> Ret(Other("Object", args[1]))
               [] fn \in Throwers -> Throw(Thrown(fn))
               [] fn = "parseIntStrict" ->
                    IF args = <<Prim("42")>> THEN Ret(Prim("n42"))
                    ELSE Throw(Err("not an integer", ""))
               [] OTHER -> Ret(UserResult(fn)),
     calls |-> <<[fn |-> fn, args |-> args]>>]

NoCall(out) == [out |-> out, calls |-> <<>>]

is(obj, key) == NoCall(Ret(JBool(key = obj.ctag)))

\* _if without the undefined-to-boolean defaults
_ifNoDefault(obj, key, success, failure) ==
    LET hit == key = obj.ctag
    IN IF hit
       THEN IF success # None
            THEN Invoke(success, <<obj.cdata, Ref(obj.self)>>)
            ELSE NoCall(Ret(JTrue))
       ELSE IF failure # None
            THEN Invoke(failure, <<Ref(obj.self)>>)
            ELSE NoCall(Ret(JFalse))

_if(obj, key, success, failure) ==
    LET hit == key = obj.ctag
    IN IF hit
       THEN IF success # None
            THEN LET r == Invoke(success, <<obj.cdata, Ref(obj.self)>>)
                 IN IF r.out.kind = "ret" /\ r.out.val = Undef
                    THEN [r EXCEPT !.out = Ret(JTrue)] ELSE r
            ELSE NoCall(Ret(JTrue))
       ELSE IF failure # None
            THEN LET r == Invoke(failure, <<Ref(obj.self)>>)
                 IN IF r.out.kind = "ret" /\ r.out.val = Undef
                    THEN [r EXCEPT !.out = Ret(JFalse)] ELSE r
            ELSE NoCall(Ret(JFalse))

\* _ifNot whose arms take the arguments of _if's arms
_ifNotSwappedArgs(obj, key, success, failure) ==
    LET miss == key # obj.ctag
    IN IF miss
       THEN IF success # None
            THEN LET r == Invoke(success, <<obj.cdata, Ref(obj.self)>>)
                 IN IF r.out.kind = "ret" /\ r.out.val = Undef
                    THEN [r EXCEPT !.out = Ret(JTrue)] ELSE r
            ELSE NoCall(Ret(JTrue))
       ELSE IF failure # None
            THEN LET r == Invoke(failure, <<Ref(obj.self)>>)
                 IN IF r.out.kind = "ret" /\ r.out.val = Undef
                    THEN [r EXCEPT !.out = Ret(JFalse)] ELSE r
            ELSE NoCall(Ret(JFalse))

_ifNot(obj, key, success, failure) ==
    LET miss == key # obj.ctag
    IN IF miss
       THEN IF success # None
            THEN LET r == Invoke(success, <<Ref(obj.self)>>)
                 IN IF r.out.kind = "ret" /\ r.out.val = Undef
                    THEN [r EXCEPT !.out = Ret(JTrue)] ELSE r
            ELSE NoCall(Ret(JTrue))
       ELSE IF failure # None
            THEN LET r == Invoke(failure, <<obj.cdata, Ref(obj.self)>>)
                 IN IF r.out.kind = "ret" /\ r.out.val = Undef
                    THEN [r EXCEPT !.out = Ret(JFalse)] ELSE r
            ELSE NoCall(Ret(JFalse))

\* match that prefers the fallback to the handler of the tag
matchFallbackFirst(obj, callbacks) ==
    LET fallback == Lookup(callbacks, "_")
        cb == IF fallback # None THEN fallback ELSE Lookup(callbacks, obj.ctag)
    IN IF cb = None
       THEN NoCall(Throw(Err("No handler for and no '_' fallback", obj.ctag)))
       ELSE IF fallback = None
            THEN Invoke(cb, <<obj.cdata, Ref(obj.self)>>)
            ELSE Invoke(cb, <<Ref(obj.self)>>)

match(obj, callbacks) ==
    LET specific == Lookup(callbacks, obj.ctag)
        cb == IF specific # None THEN specific ELSE Lookup(callbacks, "_")
    IN IF cb = None
       THEN NoCall(Throw(Err("No handler for and no '_' fallback", obj.ctag)))
       ELSE IF specific # None
            THEN Invoke(cb, <<obj.cdata, Ref(obj.self)>>)
            ELSE Invoke(cb, <<Ref(obj.self)>>)

matchExhaustive(obj, callbacks) ==
    LET cb == Lookup(callbacks, obj.ctag)
    IN IF cb = None THEN NoCall(NotCallable)
       ELSE Invoke(cb, <<obj.cdata, Ref(obj.self)>>)

\* matchAsync that calls the fallback with the arguments of a tag handler
matchAsyncSameArgs(obj, callbacks) ==
    LET specific == Lookup(callbacks, obj.ctag)
        cb == IF specific # None THEN specific ELSE Lookup(callbacks, "_")
    IN IF cb = None
       THEN NoCall(Throw(Err("No handler for and no '_' fallback", obj.ctag)))
       ELSE Invoke(cb, <<obj.cdata, Ref(obj.self)>>)

\* matchAsync is an async function: its body runs at the call, up to its
\* return or throw; the caller always gets a promise back
matchAsync(obj, callbacks) ==
    LET specific == Lookup(callbacks, obj.ctag)
        cb == IF specific # None THEN specific ELSE Lookup(callbacks, "_")
    IN IF cb = None
       THEN NoCall(Throw(Err("No handler for and no '_' fallback", obj.ctag)))
       ELSE IF specific # None
            THEN Invoke(cb, <<obj.cdata, Ref(obj.self)>>)
            ELSE Invoke(cb, <<Ref(obj.self)>>)

Pending == [state |-> "pending", val |-> Undef]

NoPromise == [state |-> "none", val |-> Undef]

Fulfilled(v) == [state |-> "fulfilled", val |-> v]

Rejected(e) == [state |-> "rejected", val |-> e]

\* The promise an async function call returns, given how its body ended:
\* a throw rejects it, a returned promise is followed (hp is then the
\* returned promise), any other returned value fulfils it.  A handler
\* written by the caller is an async function, so what it returns is a
\* promise; Object returns a plain value.
AsyncCall(obj, callbacks) ==
    LET r == matchAsync(obj, callbacks)
        promised == r.calls # <<>> /\ r.calls[1].fn # "Object"
    IN [calls |-> r.calls,
        hp |-> IF r.out.kind = "ret" /\ promised THEN Pending ELSE NoPromise,
        rp |-> IF r.out.kind = "throw" THEN Rejected(r.out.val)
               ELSE IF promised THEN Pending
               ELSE Fulfilled(r.out.val)]

(* ---------------------------- adapter methods --------------------------- *)
\* the methods OkCtor / ErrCtor / SomeCtor / NoneCtor assign onto a value;
\* a value that parse built has none of them
Methods(ext) ==
    CASE ext = "Result" -> {"unwrap", "unwrap_or", "unwrap_or_else", "isOk", "isErr",
                            "ok", "map", "mapErr", "andThen"}
      [] ext = "Option" -> {"unwrap", "unwrap_or", "unwrap_or_else", "isSome", "isNone",
                            "ok_or", "ok_or_else", "map", "andThen", "filter"}
      [] OTHER -> {}

\* a method call's outcome: the heap after it, what it returned or threw,
\* and the calls it made of the caller's functions
Done(h, out, calls) == [heap |-> h, out |-> out, calls |-> calls]

\* Result<U, E>().Ok(v) and the like: a value of a fresh adapter factory
Make(h, adapter, name, value, calls) ==
    LET r == adapterCtor(h, IF adapter = "Result" THEN ResultInternal ELSE OptionInternal,
                         name, value)
    IN Done(r.heap, r.out, calls)

\* Ctor(fn(...)): the argument is evaluated first; when the caller's
\* function threw, the constructor is never reached and the exception
\* leaves the method
MakeFrom(h, r, adapter, name) ==
    IF r.out.kind = "throw" THEN Done(h, r.out, r.calls)
    ELSE Make(h, adapter, name, r.out.val, r.calls)

\* the functions a caller passes to andThen: each returns a new value of
\* the adapter, kS a success and kF a failure, or throws
Chain(h, adapter, fn, args) ==
    IF fn \in Throwers THEN Done(h, Throw(Thrown(fn)), <<[fn |-> fn, args |-> args]>>)
    ELSE Make(h, adapter,
              IF adapter = "Result" THEN (IF fn = "kS" THEN "Ok" ELSE "Err")
              ELSE (IF fn = "kS" THEN "Some" ELSE "None"),
              Prim("rk"), <<[fn |-> fn, args |-> args]>>)

\* unwrap that refuses a success whose payload is undefined
unwrapNullishThrows(h, obj) ==
    IF "unwrap" \notin Methods(obj.ext) THEN Done(h, NotCallable, <<>>)
    ELSE CASE obj.ctag \in {"Ok", "Some"} /\ obj.cdata # Undef -> Done(h, Ret(obj.cdata), <<>>)
           [] obj.ctag \in {"Ok", "Err"} ->
                Done(h, Throw(IF obj.cdata.k = "error" THEN obj.cdata
                              ELSE NewError(String(Nullish(obj.cdata, Str("Err"))))), <<>>)
           [] OTHER -> Done(h, Throw(Err("Called unwrap() on Option.None", "")), <<>>)

\* unwrap that wraps every carried error value in a new Error
unwrapAlwaysWraps(h, obj) ==
    IF "unwrap" \notin Methods(obj.ext) THEN Done(h, NotCallable, <<>>)
    ELSE CASE obj.ctag \in {"Ok", "Some"} -> Done(h, Ret(obj.cdata), <<>>)
           [] obj.ctag = "Err" ->
                Done(h, Throw(NewError(String(Nullish(obj.cdata, Str("Err"))))), <<>>)
           [] OTHER -> Done(h, Throw(Err("Called unwrap() on Option.None", "")), <<>>)

unwrap(h, obj) ==
    IF "unwrap" \notin Methods(obj.ext) THEN Done(h, NotCallable, <<>>)
    ELSE CASE obj.ctag \in {"Ok", "Some"} -> Done(h, Ret(obj.cdata), <<>>)
           [] obj.ctag = "Err" ->
                Done(h, Throw(IF obj.cdata.k = "error" THEN obj.cdata
                              ELSE NewError(String(Nullish(obj.cdata, Str("Err"))))), <<>>)
           [] OTHER -> Done(h, Throw(Err("Called unwrap() on Option.None", "")), <<>>)

unwrap_or(h, obj, x) ==
    IF "unwrap_or" \notin Methods(obj.ext) THEN Done(h, NotCallable, <<>>)
    ELSE IF obj.ctag \in {"Ok", "Some"} THEN Done(h, Ret(obj.cdata), <<>>)
    ELSE Done(h, Ret(x), <<>>)

\* unwrap_or_else that computes the default before it looks at the value
unwrap_or_elseEager(h, obj, cb) ==
    IF "unwrap_or_else" \notin Methods(obj.ext) THEN Done(h, NotCallable, <<>>)
    ELSE LET r == Invoke(cb, <<>>)
         IN IF obj.ctag \in {"Ok", "Some"} THEN Done(h, Ret(obj.cdata), r.calls)
            ELSE Done(h, r.out, r.calls)

unwrap_or_else(h, obj, cb) ==
    IF "unwrap_or_else" \notin Methods(obj.ext) THEN Done(h, NotCallable, <<>>)
    ELSE IF obj.ctag \in {"Ok", "Some"} THEN Done(h, Ret(obj.cdata), <<>>)
    ELSE LET r == Invoke(cb, <<>>) IN Done(h, r.out, r.calls)

isOk(h, obj) ==
    IF "isOk" \notin Methods(obj.ext) THEN Done(h, NotCallable, <<>>)
    ELSE Done(h, Ret(IF obj.ctag = "Ok" THEN JTrue ELSE JFalse), <<>>)

\* isErr that answers false on every value
isErrNever(h, obj) ==
    IF "isErr" \notin Methods(obj.ext) THEN Done(h, NotCallable, <<>>)
    ELSE Done(h, Ret(JFalse), <<>>)

isErr(h, obj) ==
    IF "isErr" \notin Methods(obj.ext) THEN Done(h, NotCallable, <<>>)
    ELSE Done(h, Ret(IF obj.ctag = "Ok" THEN JFalse ELSE JTrue), <<>>)

isSome(h, obj) ==
    IF "isSome" \notin Methods(obj.ext) THEN Done(h, NotCallable, <<>>)
    ELSE Done(h, Ret(IF obj.ctag = "Some" THEN JTrue ELSE JFalse), <<>>)

isNone(h, obj) ==
    IF "isNone" \notin Methods(obj.ext) THEN Done(h, NotCallable, <<>>)
    ELSE Done(h, Ret(IF obj.ctag = "Some" THEN JFalse ELSE JTrue), <<>>)

\* map that catches what the function throws and returns it as a failure
mapCatches(h, obj, f) ==
    IF "map" \notin Methods(obj.ext) THEN Done(h, NotCallable, <<>>)
    ELSE CASE obj.ctag \in {"Ok", "Some"} ->
                LET r == Invoke(f, <<obj.cdata>>)
                IN IF r.out.kind = "throw"
                   THEN Make(h, obj.ext, IF obj.ext = "Result" THEN "Err" ELSE "None",
                             IF obj.ext = "Result" THEN r.out.val ELSE Undef, r.calls)
                   ELSE Make(h, obj.ext, obj.ctag, r.out.val, r.calls)
           [] obj.ctag = "Err" -> Make(h, "Result", "Err", obj.cdata, <<>>)
           [] OTHER -> Make(h, "Option", "None", Undef, <<>>)

map(h, obj, f) ==
    IF "map" \notin Methods(obj.ext) THEN Done(h, NotCallable, <<>>)
    ELSE CASE obj.ctag \in {"Ok", "Some"} ->
                MakeFrom(h, Invoke(f, <<obj.cdata>>), obj.ext, obj.ctag)
           [] obj.ctag = "Err" -> Make(h, "Result", "Err", obj.cdata, <<>>)
           [] OTHER -> Make(h, "Option", "None", Undef, <<>>)

\* mapErr that transforms the success side as well
mapErrBothSides(h, obj, f) ==
    IF "mapErr" \notin Methods(obj.ext) THEN Done(h, NotCallable, <<>>)
    ELSE MakeFrom(h, Invoke(f, <<obj.cdata>>), "Result", obj.ctag)

mapErr(h, obj, f) ==
    IF "mapErr" \notin Methods(obj.ext) THEN Done(h, NotCallable, <<>>)
    ELSE IF obj.ctag = "Ok" THEN Make(h, "Result", "Ok", obj.cdata, <<>>)
    ELSE MakeFrom(h, Invoke(f, <<obj.cdata>>), "Result", "Err")

\* andThen that runs the continuation on a failure as well
andThenAlways(h, obj, f) ==
    IF "andThen" \notin Methods(obj.ext) THEN Done(h, NotCallable, <<>>)
    ELSE Chain(h, obj.ext, f, <<obj.cdata>>)

andThen(h, obj, f) ==
    IF "andThen" \notin Methods(obj.ext) THEN Done(h, NotCallable, <<>>)
    ELSE CASE obj.ctag \in {"Ok", "Some"} -> Chain(h, obj.ext, f, <<obj.cdata>>)
           [] obj.ctag = "Err" -> Make(h, "Result", "Err", obj.cdata, <<>>)
           [] OTHER -> Make(h, "Option", "None", Undef, <<>>)

\* filter that keeps the value when the predicate fails
filterInverted(h, obj, p) ==
    IF "filter" \notin Methods(obj.ext) THEN Done(h, NotCallable, <<>>)
    ELSE IF obj.ctag = "Some"
    THEN LET r == Invoke(p, <<obj.cdata>>)
         IN IF r.out.kind = "throw" THEN Done(h, r.out, r.calls)
            ELSE IF Truthy(r.out.val) THEN Make(h, "Option", "None", Undef, r.calls)
            ELSE Make(h, "Option", "Some", obj.cdata, r.calls)
    ELSE Make(h, "Option", "None", Undef, <<>>)

filter(h, obj, p) ==
    IF "filter" \notin Methods(obj.ext) THEN Done(h, NotCallable, <<>>)
    ELSE IF obj.ctag = "Some"
    THEN LET r == Invoke(p, <<obj.cdata>>)
         IN IF r.out.kind = "throw" THEN Done(h, r.out, r.calls)
            ELSE IF Truthy(r.out.val) THEN Make(h, "Option", "Some", obj.cdata, r.calls)
            ELSE Make(h, "Option", "None", Undef, r.calls)
    ELSE Make(h, "Option", "None", Undef, <<>>)

\* ok that forgets the success payload's variant
okAlwaysNone(h, obj) ==
    IF "ok" \notin Methods(obj.ext) THEN Done(h, NotCallable, <<>>)
    ELSE Make(h, "Option", "None", Undef, <<>>)

ok(h, obj) ==
    IF "ok" \notin Methods(obj.ext) THEN Done(h, NotCallable, <<>>)
    ELSE IF obj.ctag = "Ok" THEN Make(h, "Option", "Some", obj.cdata, <<>>)
    ELSE Make(h, "Option", "None", Undef, <<>>)

ok_or(h, obj, err) ==
    IF "ok_or" \notin Methods(obj.ext) THEN Done(h, NotCallable, <<>>)
    ELSE IF obj.ctag = "Some" THEN Make(h, "Result", "Ok", obj.cdata, <<>>)
    ELSE Make(h, "Result", "Err", err, <<>>)

ok_or_else(h, obj, errFn) ==
    IF "ok_or_else" \notin Methods(obj.ext) THEN Done(h, NotCallable, <<>>)
    ELSE IF obj.ctag = "Some" THEN Make(h, "Result", "Ok", obj.cdata, <<>>)
    ELSE MakeFrom(h, Invoke(errFn, <<>>), "Result", "Err")

(* ---------------------------- Try and TryInto --------------------------- *)
\* a function value with the arguments it will be called with:
\* () => cb(...args), or a caller's function that takes none
Thunk(fn, args) == [fn |-> fn, args |-> args]

\* Try.sync that wraps what it caught in a new Error
Try_syncWraps(h, cb) ==
    LET r == Invoke(cb.fn, cb.args)
    IN IF r.out.kind = "ret" THEN Make(h, "Result", "Ok", r.out.val, r.calls)
       ELSE Make(h, "Result", "Err", NewError(String(r.out.val)), r.calls)

\* Try.sync(cb): try { return R.Ok(cb()) } catch (e) { return R.Err(e) }
Try_sync(h, cb) ==
    LET r == Invoke(cb.fn, cb.args)
    IN IF r.out.kind = "ret" THEN Make(h, "Result", "Ok", r.out.val, r.calls)
       ELSE Make(h, "Result", "Err", r.out.val, r.calls)

\* the promise a caller's async function returns, once it has settled
PromiseOf(fn, args) ==
    CASE fn \in Rejects -> Rejected(Rejection(fn))
      [] fn = "asyncParse" ->
           IF args = <<Prim("42")>> THEN Fulfilled(Prim("n42"))
           ELSE Rejected(Err("not an integer", ""))
      [] OTHER -> Fulfilled(UserResult(fn))

\* Try.async(cb), up to its first suspension: cb is called inside the try;
\* if it throws, the catch builds R.Err(e) and the function returns, which
\* fulfils its promise; otherwise the function waits for cb's promise.
\* `settles` counts the times the returned promise has been settled.
Try_async(h, cb) ==
    LET r == Invoke(cb.fn, cb.args)
    IN IF r.out.kind = "throw"
       THEN LET e == Make(h, "Result", "Err", r.out.val, r.calls)
            IN [heap |-> e.heap, cb |-> cb, calls |-> r.calls, hp |-> NoPromise,
                rp |-> Fulfilled(e.out.val), settles |-> 1, outer |-> NoPromise]
       ELSE [heap |-> h, cb |-> cb, calls |-> r.calls, hp |-> Pending,
             rp |-> Pending, settles |-> 0, outer |-> NoPromise]

\* Try.async without its catch: a rejection of cb's promise rejects the
\* returned promise
Try_asyncResumeNoCatch(h, e) ==
    IF e.hp.state = "fulfilled"
    THEN LET v == Make(h, "Result", "Ok", e.hp.val, <<>>)
         IN [heap |-> v.heap, rp |-> Fulfilled(v.out.val)]
    ELSE [heap |-> h, rp |-> Rejected(e.hp.val)]

\* Try.async after `await cb()`: R.Ok(value) when cb's promise fulfilled,
\* R.Err(e) from the catch when it rejected; returning fulfils the promise
Try_asyncResume(h, e) ==
    LET v == Make(h, "Result", IF e.hp.state = "fulfilled" THEN "Ok" ELSE "Err",
                  e.hp.val, <<>>)
    IN [heap |-> v.heap, rp |-> Fulfilled(v.out.val)]

\* a wrapper of TryInto.sync that calls cb without the arguments it got
TryInto_syncNoArgs(h, cb, args) == Try_sync(h, Thunk(cb, <<>>))

\* TryInto.sync(cb)(...args): Try.sync(() => cb(...args))
TryInto_sync(h, cb, args) == Try_sync(h, Thunk(cb, args))

\* TryInto.async(cb)(...args): an async function that returns
\* Try.async(() => cb(...args)); its own promise follows that promise
TryInto_async(h, cb, args) == [Try_async(h, Thunk(cb, args)) EXCEPT !.outer = Pending]

(* ------------------------------- actions ------------------------------- *)
Init ==
    /\ factory \in Factories
    /\ heap = <<>>
    /\ last = [op |-> "init"]
    /\ pend = <<>>

NewFactory ==
    /\ \E f \in Factories : factory' = f
    /\ heap' = <<>>
    /\ last' = [op |-> "new"]
    /\ pend' = <<>>

\* v = F[prop](data)
Construct ==
    /\ Len(heap) < MaxObjs
    /\ \E prop \in Props(factory), data \in Payloads(factory.adapter) :
         LET r == CallProp(heap, factory, prop, data)
         IN /\ heap' = r.heap
            /\ last' = [op |-> "construct", prop |-> prop, data |-> data,
                        made |-> Len(r.heap) - Len(heap), out |-> r.out]
    /\ UNCHANGED <<factory, pend>>

\* w = v.toJSON()
ToJSON ==
    /\ \E o \in 1..Len(heap) :
         last' = [op |-> "toJSON", self |-> o, wire |-> toJSON(heap[o])]
    /\ UNCHANGED <<factory, heap, pend>>

\* v = F._.parse(w), where w is the wire object toJSON just produced or
\* one that comes from outside
Parse ==
    /\ Len(heap) < MaxObjs
    /\ \E w \in Wires(factory) \cup (IF last.op = "toJSON" THEN {last.wire} ELSE {}) :
         LET r == CallParse(heap, factory, w)
         IN /\ heap' = r.heap
            /\ last' = [op |-> "parse", wire |-> w,
                        called |-> Get(factory, "_").kind = "utils",
                        made |-> Len(r.heap) - Len(heap),
                        from |-> IF last.op = "toJSON" /\ w = last.wire THEN last.self ELSE 0,
                        out |-> r.out]
    /\ UNCHANGED <<factory, pend>>

\* v.is(key)
Is ==
    /\ \E o \in 1..Len(heap), key \in GuardKeys(factory) :
         LET r == is(heap[o], key)
         IN last' = [op |-> "is", self |-> o, key |-> key, out |-> r.out, calls |-> r.calls]
    /\ UNCHANGED <<factory, heap, pend>>

\* v.if(key, success, failure)
If ==
    /\ \E o \in 1..Len(heap), key \in GuardKeys(factory), g \in GuardArgs :
         LET success == g[1]
             failure == g[2]
             r == _if(heap[o], key, success, failure)
         IN last' = [op |-> "if", self |-> o, key |-> key, success |-> success,
                     failure |-> failure, out |-> r.out, calls |-> r.calls]
    /\ UNCHANGED <<factory, heap, pend>>

\* v.ifNot(key, success, failure)
IfNot ==
    /\ \E o \in 1..Len(heap), key \in GuardKeys(factory), g \in GuardArgs :
         LET success == g[1]
             failure == g[2]
             r == _ifNot(heap[o], key, success, failure)
         IN last' = [op |-> "ifNot", self |-> o, key |-> key, success |-> success,
                     failure |-> failure, out |-> r.out, calls |-> r.calls]
    /\ UNCHANGED <<factory, heap, pend>>

\* v.match(callbacks)
Match ==
    /\ \E o \in 1..Len(heap), callbacks \in HandlerMaps(factory) :
         LET r == match(heap[o], callbacks)
         IN last' = [op |-> "match", self |-> o, callbacks |-> callbacks,
                     out |-> r.out, calls |-> r.calls]
    /\ UNCHANGED <<factory, heap, pend>>

\* v.matchExhaustive(callbacks)
MatchExhaustive ==
    /\ \E o \in 1..Len(heap), callbacks \in HandlerMaps(factory) :
         LET r == matchExhaustive(heap[o], callbacks)
         IN last' = [op |-> "matchExhaustive", self |-> o, callbacks |-> callbacks,
                     out |-> r.out, calls |-> r.calls]
    /\ UNCHANGED <<factory, heap, pend>>

\* p = v.matchAsync(callbacks): the call itself
MatchAsync ==
    /\ Len(pend) < MaxPending
    /\ \E o \in 1..Len(heap), callbacks \in HandlerMaps(factory) :
         LET c == AsyncCall(heap[o], callbacks)
         IN /\ pend' = Append(pend, [self |-> o, callbacks |-> callbacks, calls |-> c.calls,
                                     hp |-> c.hp, rp |-> c.rp])
            /\ last' = [op |-> "matchAsyncCall", self |-> o, callbacks |-> callbacks,
                        out |-> Ret(Prim("promise")), calls |-> c.calls]
    /\ UNCHANGED <<factory, heap>>

\* the promise of the invoked handler fulfils with the handler's result
HandlerSettles ==
    /\ \E i \in 1..Len(pend) :
         /\ pend[i].hp.state = "pending"
         /\ pend' = [pend EXCEPT ![i].hp = Fulfilled(UserResult(pend[i].calls[1].fn))]
    /\ UNCHANGED <<factory, heap, last>>

\* the promise matchAsync returned follows the handler's promise
Adopt ==
    /\ \E i \in 1..Len(pend) :
         /\ pend[i].rp.state = "pending"
         /\ pend[i].hp.state \in {"fulfilled", "rejected"}
         /\ pend' = [pend EXCEPT ![i].rp = pend[i].hp]
    /\ UNCHANGED <<factory, heap, last>>

\* await p: the caller observes the settled promise
Await ==
    /\ \E i \in 1..Len(pend) :
         /\ pend[i].rp.state \in {"fulfilled", "rejected"}
         /\ last' = [op |-> "matchAsync", self |-> pend[i].self,
                     callbacks |-> pend[i].callbacks, calls |-> pend[i].calls,
                     hp |-> pend[i].hp,
                     out |-> IF pend[i].rp.state = "fulfilled" THEN Ret(pend[i].rp.val)
                             ELSE Throw(pend[i].rp.val)]
         /\ pend' = SubSeq(pend, 1, i - 1) \o SubSeq(pend, i + 1, Len(pend))
    /\ UNCHANGED <<factory, heap>>

\* the result of a method call, as the caller sees it
Called(op, o, arg, r) ==
    [op |-> op, self |-> o, arg |-> arg, out |-> r.out, calls |-> r.calls,
     made |-> Len(r.heap) - Len(heap)]

\* v.unwrap()
Unwrap ==
    /\ factory.adapter # "none"
    /\ \E o \in 1..Len(heap) :
         last' = Called("unwrap", o, None, unwrap(heap, heap[o]))
    /\ UNCHANGED <<factory, heap, pend>>

\* v.unwrap_or(x)
UnwrapOr ==
    /\ factory.adapter # "none"
    /\ \E o \in 1..Len(heap), x \in Defaults :
         last' = Called("unwrap_or", o, x, unwrap_or(heap, heap[o], x))
    /\ UNCHANGED <<factory, heap, pend>>

\* v.unwrap_or_else(cb)
UnwrapOrElse ==
    /\ factory.adapter # "none"
    /\ \E o \in 1..Len(heap) :
         last' = Called("unwrap_or_else", o, "fd", unwrap_or_else(heap, heap[o], "fd"))
    /\ UNCHANGED <<factory, heap, pend>>

\* v.isOk(), v.isErr(), v.isSome(), v.isNone()
Predicate ==
    /\ factory.adapter # "none"
    /\ \E o \in 1..Len(heap), name \in {"isOk", "isErr", "isSome", "isNone"} :
         last' = Called(name, o, None,
                        CASE name = "isOk" -> isOk(heap, heap[o])
                          [] name = "isErr" -> isErr(heap, heap[o])
                          [] name = "isSome" -> isSome(heap, heap[o])
                          [] OTHER -> isNone(heap, heap[o]))
    /\ UNCHANGED <<factory, heap, pend>>

\* w = v.map(f)
Map ==
    /\ factory.adapter # "none"
    /\ Len(heap) < MaxObjs
    /\ \E o \in 1..Len(heap) :
         LET r == map(heap, heap[o], "fm")
         IN heap' = r.heap /\ last' = Called("map", o, "fm", r)
    /\ UNCHANGED <<factory, pend>>

\* w = v.mapErr(f)
MapErr ==
    /\ factory.adapter # "none"
    /\ Len(heap) < MaxObjs
    /\ \E o \in 1..Len(heap) :
         LET r == mapErr(heap, heap[o], "fm")
         IN heap' = r.heap /\ last' = Called("mapErr", o, "fm", r)
    /\ UNCHANGED <<factory, pend>>

\* w = v.andThen(f)
AndThen ==
    /\ factory.adapter # "none"
    /\ Len(heap) < MaxObjs
    /\ \E o \in 1..Len(heap), f \in {"kS", "kF"} :
         LET r == andThen(heap, heap[o], f)
         IN heap' = r.heap /\ last' = Called("andThen", o, f, r)
    /\ UNCHANGED <<factory, pend>>

\* w = v.filter(p)
Filter ==
    /\ factory.adapter # "none"
    /\ Len(heap) < MaxObjs
    /\ \E o \in 1..Len(heap), p \in {"pT", "pF"} :
         LET r == filter(heap, heap[o], p)
         IN heap' = r.heap /\ last' = Called("filter", o, p, r)
    /\ UNCHANGED <<factory, pend>>

Next ==
    \/ NewFactory
    \/ Construct
    \/ ToJSON
    \/ Parse
    \/ Is
    \/ If
    \/ IfNot
    \/ Match
    \/ MatchExhaustive
    \/ Unwrap
    \/ UnwrapOr
    \/ UnwrapOrElse
    \/ Predicate
    \/ Map
    \/ MapErr
    \/ AndThen
    \/ Filter

Spec == Init /\ [][Next]_vars

\* The asynchronous dispatch: it starts from a factory and one value that
\* the factory has constructed or parsed, and runs matchAsync calls on it.
OneValueHeaps(f) ==
    {r.heap : r \in {CallProp(<<>>, f, prop, data) : prop \in Props(f), data \in Data}
                    \cup {CallParse(<<>>, f, w) : w \in Wires(f)}} \ {<<>>}

InitAsync ==
    /\ factory \in Factories
    /\ heap \in OneValueHeaps(factory)
    /\ last = [op |-> "init"]
    /\ pend = <<>>

NextAsync ==
    \/ MatchAsync
    \/ HandlerSettles
    \/ Adopt
    \/ Await

SpecAsync == InitAsync /\ [][NextAsync]_vars

\* Every operation interleaved: the values of an Option factory, built by
\* its constructors (enumFactory, then Object.assign) or by its parse
\* (enumFactory alone), under the synchronous calls and under matchAsync
\* calls in flight.
MixedFactories == {OptionInternal}

InitMixed ==
    /\ factory \in MixedFactories
    /\ heap = <<>>
    /\ last = [op |-> "init"]
    /\ pend = <<>>

NextMixed ==
    \/ Construct
    \/ ToJSON
    \/ Parse
    \/ Is
    \/ If
    \/ IfNot
    \/ Match
    \/ MatchExhaustive
    \/ Unwrap
    \/ UnwrapOr
    \/ UnwrapOrElse
    \/ Predicate
    \/ Map
    \/ MapErr
    \/ AndThen
    \/ Filter
    \/ MatchAsync
    \/ HandlerSettles
    \/ Adopt
    \/ Await

SpecMixed == InitMixed /\ [][NextMixed]_vars

\* The conversions between Result and Option, on the values of the two
\* adapter factories.
\* w = v.ok()
OkCall ==
    /\ factory.adapter # "none"
    /\ Len(heap) < MaxObjs
    /\ \E o \in 1..Len(heap) :
         LET r == ok(heap, heap[o])
         IN heap' = r.heap /\ last' = Called("ok", o, None, r)
    /\ UNCHANGED <<factory, pend>>

\* w = v.ok_or(err)
OkOr ==
    /\ factory.adapter # "none"
    /\ Len(heap) < MaxObjs
    /\ \E o \in 1..Len(heap), err \in ErrArgs :
         LET r == ok_or(heap, heap[o], err)
         IN heap' = r.heap /\ last' = Called("ok_or", o, err, r)
    /\ UNCHANGED <<factory, pend>>

\* w = v.ok_or_else(errFn)
OkOrElse ==
    /\ factory.adapter # "none"
    /\ Len(heap) < MaxObjs
    /\ \E o \in 1..Len(heap) :
         LET r == ok_or_else(heap, heap[o], "fe")
         IN heap' = r.heap /\ last' = Called("ok_or_else", o, "fe", r)
    /\ UNCHANGED <<factory, pend>>

InitConv ==
    /\ factory \in {ResultInternal, OptionInternal}
    /\ heap = <<>>
    /\ last = [op |-> "init"]
    /\ pend = <<>>

NextConv ==
    \/ Construct
    \/ OkCall
    \/ OkOr
    \/ OkOrElse

SpecConv == InitConv /\ [][NextConv]_vars

\* Try and TryInto, on the Result values they build.
\* the functions a caller hands to Try.sync
SyncThunks == {"fm", "tB", "tS"}

\* r = Try.sync(cb)
TrySync ==
    /\ Len(heap) + Len(pend) < MaxObjs
    /\ \E cb \in SyncThunks :
         LET r == Try_sync(heap, Thunk(cb, <<>>))
         IN /\ heap' = r.heap
            /\ last' = [op |-> "Try.sync", arg |-> cb, out |-> r.out, calls |-> r.calls,
                        made |-> Len(r.heap) - Len(heap)]
    /\ UNCHANGED <<factory, pend>>

\* the arguments a caller passes to a wrapped function
IntoArgs == {<<Prim("42")>>, <<Prim("x")>>}

\* the functions a caller hands to Try.async: async functions, and one
\* that throws before it returns a promise
AsyncThunks == {"av", "aB", "aS", "tB"}

\* r = TryInto.sync(parseIntStrict)(...args)
TryIntoSync ==
    /\ Len(heap) + Len(pend) < MaxObjs
    /\ \E args \in IntoArgs :
         LET r == TryInto_sync(heap, "parseIntStrict", args)
         IN /\ heap' = r.heap
            /\ last' = [op |-> "TryInto.sync", arg |-> "parseIntStrict", args |-> args,
                        out |-> r.out, calls |-> r.calls, made |-> Len(r.heap) - Len(heap)]
    /\ UNCHANGED <<factory, pend>>

\* p = Try.async(cb): the call itself
TryAsync ==
    /\ Len(pend) < MaxPending
    /\ Len(heap) + Len(pend) < MaxObjs
    /\ \E cb \in AsyncThunks :
         LET c == Try_async(heap, Thunk(cb, <<>>))
         IN /\ heap' = c.heap
            /\ pend' = Append(pend, [op |-> "Try.async", cb |-> c.cb, calls |-> c.calls,
                                     hp |-> c.hp, rp |-> c.rp, outer |-> c.outer,
                                     settles |-> c.settles])
            /\ last' = [op |-> "Try.asyncCall", out |-> Ret(Prim("promise"))]
    /\ UNCHANGED factory

\* p = TryInto.async(asyncParse)(...args): the call itself
TryIntoAsync ==
    /\ Len(pend) < MaxPending
    /\ Len(heap) + Len(pend) < MaxObjs
    /\ \E args \in IntoArgs :
         LET c == TryInto_async(heap, "asyncParse", args)
         IN /\ heap' = c.heap
            /\ pend' = Append(pend, [op |-> "TryInto.async", cb |-> c.cb, calls |-> c.calls,
                                     hp |-> c.hp, rp |-> c.rp, outer |-> c.outer,
                                     settles |-> c.settles])
            /\ last' = [op |-> "TryInto.asyncCall", out |-> Ret(Prim("promise"))]
    /\ UNCHANGED factory

\* the promise cb returned settles
CbSettles ==
    /\ \E i \in 1..Len(pend) :
         /\ pend[i].hp.state = "pending"
         /\ pend' = [pend EXCEPT ![i].hp = PromiseOf(pend[i].cb.fn, pend[i].cb.args)]
    /\ UNCHANGED <<factory, heap, last>>

\* Try.async resumes after its await and returns
TryResumes ==
    /\ \E i \in 1..Len(pend) :
         /\ pend[i].hp.state \in {"fulfilled", "rejected"}
         /\ pend[i].rp.state = "pending"
         /\ LET r == Try_asyncResume(heap, pend[i])
            IN /\ heap' = r.heap
               /\ pend' = [pend EXCEPT ![i].rp = r.rp, ![i].settles = pend[i].settles + 1]
    /\ UNCHANGED <<factory, last>>

\* the promise of the TryInto.async wrapper follows Try.async's promise
AdoptTry ==
    /\ \E i \in 1..Len(pend) :
         /\ pend[i].outer.state = "pending"
         /\ pend[i].rp.state \in {"fulfilled", "rejected"}
         /\ pend' = [pend EXCEPT ![i].outer = pend[i].rp]
    /\ UNCHANGED <<factory, heap, last>>

\* await p: the caller observes the promise it was given
AwaitTry ==
    /\ \E i \in 1..Len(pend) :
         LET p == IF pend[i].outer.state = "none" THEN pend[i].rp ELSE pend[i].outer
         IN /\ p.state \in {"fulfilled", "rejected"}
            /\ last' = [op |-> pend[i].op, cb |-> pend[i].cb, calls |-> pend[i].calls,
                        hp |-> pend[i].hp, settles |-> pend[i].settles,
                        out |-> IF p.state = "fulfilled" THEN Ret(p.val) ELSE Throw(p.val)]
            /\ pend' = SubSeq(pend, 1, i - 1) \o SubSeq(pend, i + 1, Len(pend))
    /\ UNCHANGED <<factory, heap>>

InitTry ==
    /\ factory = ResultInternal
    /\ heap = <<>>
    /\ last = [op |-> "init"]
    /\ pend = <<>>

NextTry ==
    \/ TrySync
    \/ TryIntoSync
    \/ TryAsync
    \/ TryIntoAsync
    \/ CbSettles
    \/ TryResumes
    \/ AdoptTry
    \/ AwaitTry
    \/ Unwrap

SpecTry == InitTry /\ [][NextTry]_vars

\* Asynchronous dispatch whose handlers may fail: under a key the caller
\* writes the usual handler, a function that throws, or an async function
\* whose promise rejects
FailingMaps(f) == {m \in [MapKeys(f) -> {"hA", "hB", "h_", "tB", "aB", None}] :
                      \A key \in MapKeys(f) : m[key] \in {HandlerOf(key), "tB", "aB", None}}

\* p = v.matchAsync(callbacks) with such a handler map
MatchAsyncFailing ==
    /\ Len(pend) < MaxPending
    /\ \E o \in 1..Len(heap), callbacks \in FailingMaps(factory) :
         LET c == AsyncCall(heap[o], callbacks)
         IN /\ pend' = Append(pend, [self |-> o, callbacks |-> callbacks, calls |-> c.calls,
                                     hp |-> c.hp, rp |-> c.rp])
            /\ last' = [op |-> "matchAsyncCall", self |-> o, callbacks |-> callbacks,
                        out |-> Ret(Prim("promise")), calls |-> c.calls]
    /\ UNCHANGED <<factory, heap>>

\* the promise of the invoked handler settles: it fulfils with the
\* handler's result or rejects with the handler's reason
HandlerPromiseSettles ==
    /\ \E i \in 1..Len(pend) :
         /\ pend[i].hp.state = "pending"
         /\ pend' = [pend EXCEPT ![i].hp = PromiseOf(pend[i].calls[1].fn, pend[i].calls[1].args)]
    /\ UNCHANGED <<factory, heap, last>>

NextAsyncFail ==
    \/ MatchAsyncFailing
    \/ HandlerPromiseSettles
    \/ Adopt
    \/ Await

SpecAsyncFail == InitAsync /\ [][NextAsyncFail]_vars

\* The calls whose caller-supplied function throws: a handler map in
\* which a handler throws an Error object, guard arms that throw, and
\* throwing functions handed to the adapter methods
ThrowingMaps(f) == {m \in [MapKeys(f) -> {"hA", "hB", "h_", "tB", None}] :
                       /\ \A key \in MapKeys(f) : m[key] \in {HandlerOf(key), "tB", None}
                       /\ \E key \in MapKeys(f) : m[key] = "tB"}

ThrowingGuardArgs == {<<"tB", "e1">>, <<"s1", "tB">>, <<"tS", None>>, <<None, "tS">>}

\* v.match(callbacks), v.matchExhaustive(callbacks)
MatchThrowing ==
    /\ \E o \in 1..Len(heap), callbacks \in ThrowingMaps(factory),
          name \in {"match", "matchExhaustive"} :
         LET r == IF name = "match" THEN match(heap[o], callbacks)
                  ELSE matchExhaustive(heap[o], callbacks)
         IN last' = [op |-> name, self |-> o, callbacks |-> callbacks,
                     out |-> r.out, calls |-> r.calls]
    /\ UNCHANGED <<factory, heap, pend>>

\* v.if(key, success, failure), v.ifNot(key, success, failure)
GuardThrowing ==
    /\ \E o \in 1..Len(heap), key \in GuardKeys(factory), g \in ThrowingGuardArgs,
          name \in {"if", "ifNot"} :
         LET r == IF name = "if" THEN _if(heap[o], key, g[1], g[2])
                  ELSE _ifNot(heap[o], key, g[1], g[2])
         IN last' = [op |-> name, self |-> o, key |-> key, success |-> g[1],
                     failure |-> g[2], out |-> r.out, calls |-> r.calls]
    /\ UNCHANGED <<factory, heap, pend>>

\* v.map(f), v.mapErr(f), v.andThen(f), v.filter(f), v.unwrap_or_else(f),
\* v.ok_or_else(f) with a function f that throws
MethodThrowing ==
    /\ factory.adapter # "none"
    /\ Len(heap) < MaxObjs
    /\ \E o \in 1..Len(heap), f \in Throwers,
          name \in {"map", "mapErr", "andThen", "filter", "unwrap_or_else", "ok_or_else"} :
         LET r == CASE name = "map" -> map(heap, heap[o], f)
                    [] name = "mapErr" -> mapErr(heap, heap[o], f)
                    [] name = "andThen" -> andThen(heap, heap[o], f)
                    [] name = "filter" -> filter(heap, heap[o], f)
                    [] name = "unwrap_or_else" -> unwrap_or_else(heap, heap[o], f)
                    [] OTHER -> ok_or_else(heap, heap[o], f)
         IN heap' = r.heap /\ last' = Called(name, o, f, r)
    /\ UNCHANGED <<factory, pend>>

InitThrow ==
    /\ factory \in Factories
    /\ heap = <<>>
    /\ last = [op |-> "init"]
    /\ pend = <<>>

NextThrow ==
    \/ Construct
    \/ MatchThrowing
    \/ GuardThrowing
    \/ MethodThrowing

SpecThrow == InitThrow /\ [][NextThrow]_vars

(* ------------------------------ JSON text ------------------------------ *)
\* The text JSON.stringify writes for a payload: a string in quotes; for an
\* Error object, which has no enumerable property of its own, "{}".  A
\* member whose value is undefined is left out of the text.
JSONText(v) ==
    CASE v.k = "error" -> [form |-> "object", s |-> ""]
      [] v.k = "other" -> [form |-> "object", s |-> ""]
      [] OTHER -> [form |-> "string", s |-> v.s]

\* JSON.stringify(v): v.toJSON() is called and the object it returns is
\* written member by member, the undefined ones skipped
JSON_stringify(obj) ==
    LET w == toJSON(obj)
    IN [members |-> IF w.data.k = "undefined" THEN {"tag"} ELSE {"tag", "data"},
        tag |-> w.tag,
        data |-> IF w.data.k = "undefined" THEN [form |-> "absent", s |-> ""]
                 ELSE JSONText(w.data)]

\* what JSON.parse reads from the text of a member
JSONValue(t) ==
    CASE t.form = "string" -> Prim(t.s)
      [] t.form = "object" -> Other("{}", Undef)
      [] OTHER -> Undef

\* the plain object JSON.parse builds from the text of an object
PlainObject(text) ==
    [k |-> "object", members |-> text.members, tag |-> text.tag, data |-> JSONValue(text.data)]

\* _.reviver(obj): parse for an object that has both `tag` and `data`,
\* the input itself for anything else
reviver(h, f, obj) ==
    IF Truthy(obj) /\ obj.k = "object" /\ "tag" \in obj.members /\ "data" \in obj.members
    THEN parse(h, f, [tag |-> obj.tag, data |-> obj.data])
    ELSE [heap |-> h, out |-> Ret(obj)]

\* F._.reviver(x): the reviver is reached through the `_` property
CallReviver(h, f, x) ==
    IF Get(f, "_").kind = "utils"
    THEN reviver(h, f, x)
    ELSE [heap |-> h, out |-> NotCallable]

\* JSON.parse(text, (k, v) => F._.reviver(v)): the reviver is called on
\* every member (strings and objects without a tag come back as they
\* are), then on the object itself
JSON_parse(h, f, text) == CallReviver(h, f, PlainObject(text))

\* what a caller hands to the reviver that is no wire object
Foreign == {Undef, JFalse, Prim("d1"),
            [k |-> "object", members |-> {"tag"}, tag |-> "A", data |-> Undef],
            [k |-> "object", members |-> {"data"}, tag |-> "", data |-> Prim("d1")]}

\* text = JSON.stringify(v)
Stringify ==
    /\ \E o \in 1..Len(heap) :
         last' = [op |-> "JSON.stringify", self |-> o, text |-> JSON_stringify(heap[o])]
    /\ UNCHANGED <<factory, heap, pend>>

\* v = JSON.parse(text, (k, v) => F._.reviver(v)) on the text just written
JsonParse ==
    /\ Len(heap) < MaxObjs
    /\ last.op = "JSON.stringify"
    /\ LET r == JSON_parse(heap, factory, last.text)
       IN /\ heap' = r.heap
          /\ last' = [op |-> "JSON.parse", from |-> last.self, text |-> last.text,
                      made |-> Len(r.heap) - Len(heap), out |-> r.out]
    /\ UNCHANGED <<factory, pend>>

\* F._.reviver(x) on something that is no wire object
Reviver ==
    /\ \E x \in Foreign :
         LET r == CallReviver(heap, factory, x)
         IN /\ heap' = r.heap
            /\ last' = [op |-> "reviver", arg |-> x, out |-> r.out]
    /\ UNCHANGED <<factory, pend>>

InitJson ==
    /\ factory \in Factories
    /\ heap = <<>>
    /\ last = [op |-> "init"]
    /\ pend = <<>>

NextJson ==
    \/ Construct
    \/ Stringify
    \/ JsonParse
    \/ Reviver

SpecJson == InitJson /\ [][NextJson]_vars

(* ------------------------------- claims -------------------------------- *)
\* the handler map holds a handler the caller wrote for this tag
Own(callbacks, tag) == tag \in DOMAIN callbacks /\ callbacks[tag] # None

ReservedError == Err("'_' is reserved as a fallback key.", "")

\* C1: round trip.  Whenever parse is called on the wire object that
\* toJSON produced for a value, it returns a value with the same tag and
\* the same payload as that value.
C1_RoundTrip ==
    (last.op = "parse" /\ last.from # 0 /\ last.called) =>
        /\ last.out.kind = "ret"
        /\ last.out.val.k = "ref"
        /\ heap[last.out.val.n].tag = heap[last.from].tag
        /\ heap[last.out.val.n].data = heap[last.from].data

C1_Witness ==
    /\ last.op = "parse" /\ last.from # 0 /\ last.called
    /\ last.out.kind = "ret"
    /\ factory.keyed
    /\ heap[last.from].data = Prim("d1")

\* C2: when the handler map has a handler for the value's tag, match calls
\* exactly that handler, once, with (data, the value match was called on),
\* and returns its result; no other handler and no fallback runs.
C2_MatchHandler ==
    (last.op = "match" /\ Own(last.callbacks, heap[last.self].tag)) =>
        LET v == heap[last.self]
            h == last.callbacks[v.tag]
        IN /\ last.calls = <<[fn |-> h, args |-> <<v.data, Ref(last.self)>>]>>
           /\ last.out = Ret(UserResult(h))

C2_Witness ==
    /\ last.op = "match"
    /\ Own(last.callbacks, heap[last.self].tag)
    /\ Own(last.callbacks, "_")
    /\ heap[last.self].ext = "Result"
    /\ last.out = Ret(Prim("rA"))

\* C3: when the handler map has no handler for the value's tag but has a
\* `_` handler, match calls `_` once with the value alone and returns its
\* result; and `_` runs only when the map has no handler for the tag.
C3_Fallback ==
    last.op = "match" =>
        LET v == heap[last.self]
            own == Own(last.callbacks, v.tag)
        IN /\ (~own /\ Own(last.callbacks, "_")) =>
                /\ last.calls = <<[fn |-> "h_", args |-> <<Ref(last.self)>>]>>
                /\ last.out = Ret(UserResult("h_"))
           /\ (\E i \in 1..Len(last.calls) : last.calls[i].fn = "h_") => ~own

\* C4: when the handler map has neither a handler for the value's tag nor
\* `_`, match throws an error that names the tag and calls nothing.
C4_MissingHandler ==
    (last.op = "match" /\ ~Own(last.callbacks, heap[last.self].tag)
                       /\ ~Own(last.callbacks, "_")) =>
        /\ last.out.kind = "throw"
        /\ last.out.val.k = "error"
        /\ last.out.val.t = heap[last.self].tag
        /\ last.calls = <<>>

\* C5: matchAsync makes the calls match makes on the same value and map
\* (the same function, the same arguments, at most one call), and when the
\* promise of the called handler fulfils with x, the promise matchAsync
\* returned fulfils with x.
C5_AsyncAsMatch ==
    last.op = "matchAsync" =>
        LET m == match(heap[last.self], last.callbacks)
        IN /\ last.calls = m.calls
           /\ Len(last.calls) <= 1
           /\ last.hp.state = "fulfilled" => last.out = Ret(last.hp.val)
           /\ (last.calls # <<>> /\ last.hp.state = "none") => last.out = m.out
           /\ (last.calls # <<>> /\ last.calls[1].fn # "Object") =>
                  /\ last.hp.state = "fulfilled"
                  /\ last.hp.val = UserResult(last.calls[1].fn)

C5_Witness ==
    /\ last.op = "matchAsync"
    /\ last.calls = <<[fn |-> "h_", args |-> <<Ref(last.self)>>]>>
    /\ last.hp.state = "fulfilled"
    /\ last.out = Ret(Prim("r_"))

\* C6: matchExhaustive never uses `_`: with a handler for the tag it
\* returns that handler's result, called with (data, value); without one
\* it fails, whether or not `_` is present, and calls nothing.
C6_Exhaustive ==
    last.op = "matchExhaustive" =>
        LET v == heap[last.self]
            own == Own(last.callbacks, v.tag)
        IN /\ own =>
                /\ last.calls = <<[fn |-> last.callbacks[v.tag],
                                   args |-> <<v.data, Ref(last.self)>>]>>
                /\ last.out = Ret(UserResult(last.callbacks[v.tag]))
           /\ ~own => (last.out.kind = "throw" /\ last.calls = <<>>)

\* C7: if(key, success, failure).  On a value whose tag is key only
\* success runs, with (data, value), and the guard returns its result, or
\* true when success is missing or returns undefined; otherwise only
\* failure runs, with (value), and the guard returns its result, or false
\* when failure is missing or returns undefined.  is(key) is true exactly
\* when the tag is key, as is if(key) without callbacks.
C7_If ==
    /\ last.op = "if" =>
         LET v == heap[last.self]
             s == last.success
             f == last.failure
         IN IF v.tag = last.key
            THEN /\ last.calls = IF s # None
                                 THEN <<[fn |-> s, args |-> <<v.data, Ref(last.self)>>]>>
                                 ELSE <<>>
                 /\ last.out = Ret(IF s = None \/ UserResult(s) = Undef
                                   THEN JTrue ELSE UserResult(s))
            ELSE /\ last.calls = IF f # None
                                 THEN <<[fn |-> f, args |-> <<Ref(last.self)>>]>>
                                 ELSE <<>>
                 /\ last.out = Ret(IF f = None \/ UserResult(f) = Undef
                                   THEN JFalse ELSE UserResult(f))
    /\ last.op = "is" =>
         /\ last.out = Ret(JBool(heap[last.self].tag = last.key))
         /\ last.calls = <<>>

C7_Witness ==
    /\ last.op = "if"
    /\ heap[last.self].tag = last.key
    /\ last.success = "su"
    /\ last.failure = "eu"
    /\ last.out = Ret(JTrue)

\* C8: ifNot(key, success, failure) mirrors if.  On a value whose tag is
\* not key only success runs, with (value), and the guard returns its
\* result, or true when success is missing or returns undefined; otherwise
\* only failure runs, with (data, value), and the guard returns its result,
\* or false when failure is missing or returns undefined.  Without
\* callbacks ifNot(key) is the negation of if(key).
C8_IfNot ==
    last.op = "ifNot" =>
        LET v == heap[last.self]
            s == last.success
            f == last.failure
        IN /\ IF v.tag # last.key
              THEN /\ last.calls = IF s # None
                                   THEN <<[fn |-> s, args |-> <<Ref(last.self)>>]>>
                                   ELSE <<>>
                   /\ last.out = Ret(IF s = None \/ UserResult(s) = Undef
                                     THEN JTrue ELSE UserResult(s))
              ELSE /\ last.calls = IF f # None
                                   THEN <<[fn |-> f, args |-> <<v.data, Ref(last.self)>>]>>
                                   ELSE <<>>
                   /\ last.out = Ret(IF f = None \/ UserResult(f) = Undef
                                     THEN JFalse ELSE UserResult(f))
           /\ (s = None /\ f = None) =>
                 last.out = Ret(JBool(_if(v, last.key, None, None).out.val = JFalse))

C8_Witness ==
    /\ last.op = "ifNot"
    /\ heap[last.self].tag = last.key
    /\ last.failure = "e1"
    /\ last.out = Ret(Prim("re"))

\* C9 as stated: every construction of a value named `_`, by a variant
\* constructor bound to that name or by parse, on any factory, fails with
\* the reserved-tag error; no value has the tag `_`.
C9_Original ==
    /\ (last.op = "construct" /\ last.prop = "_" /\ Get(factory, "_").kind = "ctor") =>
         last.out = Throw(ReservedError)
    /\ (last.op = "parse" /\ last.called /\ last.wire.tag = "_") =>
         last.out = Throw(ReservedError)
    /\ \A o \in 1..Len(heap) : heap[o].tag # "_"

\* C9 as amended: every attempt to construct a value named `_` fails and
\* builds nothing.  A variant constructor bound to `_` (on a keyed factory
\* whose list names `_`) and parse on a dynamic factory fail with the
\* reserved-tag error; parse on a keyed factory fails with the
\* unknown-variant error, its membership test coming first.  No value has
\* the tag `_`.
C9_Reserved ==
    /\ (last.op = "construct" /\ last.prop = "_") =>
         /\ last.made = 0
         /\ last.out.kind = "throw"
         /\ Get(factory, "_").kind = "ctor" => last.out = Throw(ReservedError)
    /\ (last.op = "parse" /\ last.wire.tag = "_") =>
         /\ last.made = 0
         /\ last.out.kind = "throw"
         /\ last.called =>
              last.out = IF factory.keyed
                         THEN Throw(Err("Unexpected variant", "_"))
                         ELSE Throw(ReservedError)
    /\ \A o \in 1..Len(heap) : heap[o].tag # "_"

C9_Witness ==
    /\ last.op = "parse"
    /\ last.wire.tag = "_"
    /\ last.called
    /\ ~factory.keyed
    /\ last.out = Throw(ReservedError)
    /\ Len(heap) > 0

C11_Original ==
    (~factory.given /\ last.op = "parse" /\ last.called) =>
        /\ last.out.kind = "ret"
        /\ last.out.val.k = "ref"
        /\ heap[last.out.val.n].tag = last.wire.tag
        /\ heap[last.out.val.n].data = last.wire.data

\* C11 as amended: on a factory created without a key list, parse returns,
\* for every wire object whose tag is not `_`, a new value with exactly the
\* wire's tag and data; a wire object tagged `_` is refused with the
\* reserved-tag error; the unknown-variant error is never thrown.
C11_DynamicParse ==
    (~factory.given /\ last.op = "parse" /\ last.called) =>
        IF last.wire.tag = "_"
        THEN last.out = Throw(ReservedError) /\ last.made = 0
        ELSE /\ last.out = Ret(Ref(Len(heap)))
             /\ last.made = 1
             /\ heap[Len(heap)].tag = last.wire.tag
             /\ heap[Len(heap)].data = last.wire.data

C11_Witness ==
    /\ ~factory.given
    /\ last.op = "parse" /\ last.called
    /\ last.wire.tag = "B"
    /\ last.out = Ret(Ref(2))
    /\ heap[2].tag = "B"
    /\ heap[2].data = Prim("d1")

\* the factory IronEnum() builds when it is given no key list
DynamicFactory == IronEnum([given |-> FALSE, keys |-> <<>>])

\* two values have the same tag and data and answer every method of the
\* core surface alike, under every key, callback pair and handler map
SameBehaviour(a, b) ==
    /\ a.tag = b.tag
    /\ a.data = b.data
    /\ toJSON(a) = toJSON(b)
    /\ \A key \in Tags :
         /\ is(a, key) = is(b, key)
         /\ \A g \in GuardArgs :
              /\ _if(a, key, g[1], g[2]) = _if(b, key, g[1], g[2])
              /\ _ifNot(a, key, g[1], g[2]) = _ifNot(b, key, g[1], g[2])
    /\ \A m \in HandlerMaps(DynamicFactory) :
         /\ match(a, m) = match(b, m)
         /\ AsyncCall(a, m) = AsyncCall(b, m)
         /\ matchExhaustive(a, m) = matchExhaustive(b, m)

\* the call of the last step, made on the dynamic factory instead, in the
\* heap as it was before the step
DynamicTwin ==
    LET before == SubSeq(heap, 1, Len(heap) - last.made)
    IN IF last.op = "construct"
       THEN CallProp(before, DynamicFactory, last.prop, last.data)
       ELSE CallParse(before, DynamicFactory, last.wire)

\* the last step built a value of a variant that the key list of a
\* pre-bound factory declares
BuiltDeclared ==
    /\ factory.keyed /\ factory.adapter = "none"
    /\ last.op \in {"construct", "parse"}
    /\ last.made = 1
    /\ heap[Len(heap)].tag \in Range(factory.keys)

\* C12 as stated: for every tag of a pre-bound factory's key list and every
\* payload, the value the pre-bound factory constructs or parses and the
\* value the dynamic factory constructs or parses from the same input have
\* the same tag and data and give the same results for toJSON, is, if,
\* ifNot, match, matchAsync and matchExhaustive.
C12_Original ==
    BuiltDeclared =>
        LET twin == DynamicTwin
        IN /\ twin.out = last.out
           /\ Len(twin.heap) = Len(heap)
           /\ SameBehaviour(heap[Len(heap)], twin.heap[Len(twin.heap)])

\* C12 as amended: the same for every tag of the key list that is not one
\* of the property names the dynamic factory answers itself (toString,
\* valueOf, inspect, constructor); under such a name the dynamic factory
\* constructs no variant, and only its parse yields the equivalent value.
C12_ModesAgree ==
    BuiltDeclared =>
        LET twin == DynamicTwin
            v == heap[Len(heap)]
        IN IF last.op = "construct" /\ last.prop \in BUILTINS
           THEN /\ twin.heap = SubSeq(heap, 1, Len(heap) - 1)
                /\ twin.out.val.k # "ref"
                /\ LET parsed == CallParse(twin.heap, DynamicFactory, toJSON(v))
                   IN /\ parsed.out = last.out
                      /\ SameBehaviour(v, parsed.heap[Len(heap)])
           ELSE /\ twin.out = last.out
                /\ Len(twin.heap) = Len(heap)
                /\ SameBehaviour(v, twin.heap[Len(heap)])

C12_Witness ==
    /\ BuiltDeclared
    /\ last.op = "construct"
    /\ last.prop = "B"
    /\ last.data = Prim("d1")
    /\ Len(heap) = 2
    /\ SameBehaviour(heap[2], DynamicTwin.heap[2])

\* the last step called `op` on a value that a constructor of the
\* Result / Option adapter built
OnAdapter(op, adapter) ==
    /\ last.op = op
    /\ heap[last.self].ext = adapter

\* C14 as stated: unwrap on Ok(v) returns v; on Err(e) it throws: e itself
\* when e is an Error object, otherwise a new Error whose message is the
\* string form of e.
C14_Original ==
    OnAdapter("unwrap", "Result") =>
        LET v == heap[last.self]
        IN /\ last.calls = <<>>
           /\ last.made = 0
           /\ IF v.tag = "Ok" THEN last.out = Ret(v.data)
              ELSE last.out = Throw(IF v.data.k = "error" THEN v.data
                                    ELSE NewError(String(v.data)))

\* C14 as amended: unwrap on Ok(v) returns v; on Err(e) it throws: e itself
\* when e is an Error object; a new Error with the message "Err" when e is
\* undefined (or null); otherwise a new Error whose message is the string
\* form of e.
C14_ResultUnwrap ==
    OnAdapter("unwrap", "Result") =>
        LET v == heap[last.self]
        IN /\ last.calls = <<>>
           /\ last.made = 0
           /\ IF v.tag = "Ok" THEN last.out = Ret(v.data)
              ELSE last.out = Throw(IF v.data.k = "error" THEN v.data
                                    ELSE IF v.data = Undef THEN Err("Err", "")
                                    ELSE NewError(String(v.data)))

C14_Witness ==
    /\ OnAdapter("unwrap", "Result")
    /\ heap[last.self].tag = "Err"
    /\ heap[last.self].data = Boom
    /\ last.out = Throw(Boom)

\* C15: Option's unwrap returns v on Some(v), for every v, undefined
\* included; on None it throws an Error that says unwrap was called on
\* None.  It calls nothing and builds nothing.
C15_OptionUnwrap ==
    OnAdapter("unwrap", "Option") =>
        LET v == heap[last.self]
        IN /\ last.calls = <<>>
           /\ last.made = 0
           /\ IF v.tag = "Some" THEN last.out = Ret(v.data)
              ELSE /\ v.tag = "None"
                   /\ last.out = Throw(Err("Called unwrap() on Option.None", ""))

C15_Witness ==
    /\ OnAdapter("unwrap", "Option")
    /\ heap[last.self].tag = "Some"
    /\ heap[last.self].data = Undef
    /\ last.out = Ret(Undef)

\* the value is the success variant of its adapter
Success(v) == v.tag \in {"Ok", "Some"}

\* C16: unwrap_or(d) returns the payload on Ok / Some and d on Err / None;
\* unwrap_or_else(fn) returns the payload on Ok / Some without calling
\* fn, and on Err / None calls fn exactly once, with no argument, and
\* returns its result.
C16_UnwrapOr ==
    /\ (last.op = "unwrap_or" /\ heap[last.self].ext # "none") =>
          /\ last.calls = <<>>
          /\ last.out = Ret(IF Success(heap[last.self]) THEN heap[last.self].data
                             ELSE last.arg)
    /\ (last.op = "unwrap_or_else" /\ heap[last.self].ext # "none") =>
          IF Success(heap[last.self])
          THEN last.calls = <<>> /\ last.out = Ret(heap[last.self].data)
          ELSE /\ last.calls = <<[fn |-> last.arg, args |-> <<>>]>>
               /\ last.out = Ret(UserResult(last.arg))

C16_Witness ==
    /\ last.op = "unwrap_or_else"
    /\ heap[last.self].ext = "Option"
    /\ heap[last.self].tag = "None"
    /\ last.calls = <<[fn |-> "fd", args |-> <<>>]>>
    /\ last.out = Ret(Prim("rd"))

\* C17: on every value a Result constructor built, isOk is true exactly
\* when the tag is Ok and isErr is its negation; on every value an Option
\* constructor built, isSome is true exactly when the tag is Some and
\* isNone is its negation; each answers as is(tag) and if(tag) do on the
\* same value.
C17_Predicates ==
    /\ \A name \in {"isOk", "isErr"} :
         OnAdapter(name, "Result") =>
            LET v == heap[last.self]
                key == IF name = "isOk" THEN "Ok" ELSE "Err"
            IN /\ last.out = Ret(JBool((v.tag = "Ok") <=> (name = "isOk")))
               /\ last.out = is(v, key).out
               /\ last.out = _if(v, key, None, None).out
               /\ last.calls = <<>>
    /\ \A name \in {"isSome", "isNone"} :
         OnAdapter(name, "Option") =>
            LET v == heap[last.self]
                key == IF name = "isSome" THEN "Some" ELSE "None"
            IN /\ last.out = Ret(JBool((v.tag = "Some") <=> (name = "isSome")))
               /\ last.out = is(v, key).out
               /\ last.out = _if(v, key, None, None).out
               /\ last.calls = <<>>

C17_Witness ==
    /\ OnAdapter("isErr", "Result")
    /\ heap[last.self].tag = "Err"
    /\ last.out = Ret(JTrue)
    /\ is(heap[last.self], "Err").out = Ret(JTrue)

\* the last step returned a new value, with this tag and payload and the
\* methods of this adapter
Returned(tag, data, adapter) ==
    /\ last.made = 1
    /\ last.out = Ret(Ref(Len(heap)))
    /\ heap[Len(heap)].tag = tag
    /\ heap[Len(heap)].data = data
    /\ heap[Len(heap)].ext = adapter

\* C18: map calls f once, on the payload, on Ok(x) / Some(x) and returns
\* Ok(f(x)) / Some(f(x)); on Err(e) / None it returns Err(e) / None and
\* does not call f.  mapErr calls g once, on the error, on Err(e) and
\* returns Err(g(e)); on Ok(x) it returns Ok(x) and does not call g.
C18_Map ==
    /\ (last.op = "map" /\ heap[last.self].ext # "none") =>
          LET v == heap[last.self]
          IN IF Success(v)
             THEN /\ last.calls = <<[fn |-> last.arg, args |-> <<v.data>>]>>
                  /\ Returned(v.tag, UserResult(last.arg), v.ext)
             ELSE /\ last.calls = <<>>
                  /\ Returned(v.tag, v.data, v.ext)
    /\ OnAdapter("mapErr", "Result") =>
          LET v == heap[last.self]
          IN IF v.tag = "Err"
             THEN /\ last.calls = <<[fn |-> last.arg, args |-> <<v.data>>]>>
                  /\ Returned("Err", UserResult(last.arg), "Result")
             ELSE /\ last.calls = <<>>
                  /\ Returned("Ok", v.data, "Result")

C18_Witness ==
    /\ OnAdapter("mapErr", "Result")
    /\ heap[last.self].tag = "Err"
    /\ heap[last.self].data = Boom
    /\ Returned("Err", Prim("rm"), "Result")

\* C19: andThen on Ok(x) / Some(x) calls f exactly once, on x, and
\* returns what f returned; on Err(e) / None it returns Err(e) / None and
\* does not call f.
C19_AndThen ==
    (last.op = "andThen" /\ heap[last.self].ext # "none") =>
        LET v == heap[last.self]
            fx == Chain(SubSeq(heap, 1, Len(heap) - 1), v.ext, last.arg, <<v.data>>)
        IN IF Success(v)
           THEN /\ last.calls = <<[fn |-> last.arg, args |-> <<v.data>>]>>
                /\ last.out = fx.out
                /\ heap = fx.heap
           ELSE /\ last.calls = <<>>
                /\ Returned(v.tag, v.data, v.ext)

C19_Witness ==
    /\ OnAdapter("andThen", "Result")
    /\ heap[last.self].tag = "Ok"
    /\ last.arg = "kF"
    /\ Len(last.calls) = 1
    /\ Returned("Err", Prim("rk"), "Result")

\* C20: filter on Some(x) calls p once, on x, and returns Some(x) when
\* p(x) holds and None otherwise; on None it returns None and does not
\* call p.
C20_Filter ==
    OnAdapter("filter", "Option") =>
        LET v == heap[last.self]
        IN IF v.tag = "Some"
           THEN /\ last.calls = <<[fn |-> last.arg, args |-> <<v.data>>]>>
                /\ IF UserResult(last.arg) = JTrue
                   THEN Returned("Some", v.data, "Option")
                   ELSE Returned("None", Undef, "Option")
           ELSE /\ last.calls = <<>>
                /\ Returned("None", Undef, "Option")

C20_Witness ==
    /\ OnAdapter("filter", "Option")
    /\ heap[last.self].tag = "Some"
    /\ heap[last.self].data = Prim("d1")
    /\ last.arg = "pF"
    /\ Returned("None", Undef, "Option")

\* the guards and dispatches
Dispatches == {"is", "if", "ifNot", "match", "matchExhaustive"}

\* a call record without its outcome
CallOf(l) == [l EXCEPT !.out = Ret(Undef), !.calls = <<>>]

C21_Conversions ==
    /\ OnAdapter("ok", "Result") =>
          LET v == heap[last.self]
          IN /\ last.calls = <<>>
             /\ IF v.tag = "Ok" THEN Returned("Some", v.data, "Option")
                ELSE Returned("None", Undef, "Option")
             /\ v.tag = "Ok" =>
                   \A e \in ErrArgs :
                      LET r == ok_or(heap, heap[Len(heap)], e)
                          w == r.heap[Len(r.heap)]
                      IN /\ r.out = Ret(Ref(Len(heap) + 1))
                         /\ w.tag = "Ok" /\ w.data = v.data /\ w.ext = "Result"
    /\ OnAdapter("ok_or", "Option") =>
          LET v == heap[last.self]
          IN /\ last.calls = <<>>
             /\ IF v.tag = "Some" THEN Returned("Ok", v.data, "Result")
                ELSE Returned("Err", last.arg, "Result")
    /\ OnAdapter("ok_or_else", "Option") =>
          LET v == heap[last.self]
          IN IF v.tag = "Some"
             THEN last.calls = <<>> /\ Returned("Ok", v.data, "Result")
             ELSE /\ last.calls = <<[fn |-> last.arg, args |-> <<>>]>>
                  /\ Returned("Err", UserResult(last.arg), "Result")

C21_Witness ==
    /\ OnAdapter("ok", "Result")
    /\ heap[last.self].tag = "Ok"
    /\ heap[last.self].data = Prim("d1")
    /\ Returned("Some", Prim("d1"), "Option")

\* the last call returned a Result value with this tag and payload
Holds(tag, data) ==
    /\ last.out.kind = "ret"
    /\ last.out.val.k = "ref"
    /\ heap[last.out.val.n].tag = tag
    /\ heap[last.out.val.n].data = data
    /\ heap[last.out.val.n].ext = "Result"

\* C22: Try.sync(fn) never throws.  It calls fn exactly once, without
\* arguments, and returns Ok(v) when fn returns v and Err(x) when fn
\* throws x, x being the thrown value itself; unwrap on that Err throws
\* the same x when x is an Error object.
C22_TrySync ==
    last.op = "Try.sync" =>
        /\ last.calls = <<[fn |-> last.arg, args |-> <<>>]>>
        /\ last.made = 1
        /\ IF last.arg \in Throwers
           THEN /\ Holds("Err", Thrown(last.arg))
                /\ Thrown(last.arg).k = "error" =>
                      unwrap(heap, heap[last.out.val.n]).out = Throw(Thrown(last.arg))
           ELSE Holds("Ok", UserResult(last.arg))

C22_Witness ==
    /\ last.op = "Try.sync"
    /\ last.arg = "tB"
    /\ Holds("Err", Boom)
    /\ Len(heap) = 2

\* C23: the promise Try.async(fn) returned is settled exactly once and is
\* fulfilled, never rejected: with Ok(v) when fn's promise fulfilled with
\* v, with Err(r) when it rejected with r, and with Err(x) when fn threw
\* x before returning a promise; r and x are carried unchanged.  fn is
\* called once, without arguments.
C23_TryAsync ==
    /\ \A i \in 1..Len(pend) :
          pend[i].op = "Try.async" =>
             /\ pend[i].rp.state # "rejected"
             /\ pend[i].settles = IF pend[i].rp.state = "pending" THEN 0 ELSE 1
             /\ pend[i].rp.state = "fulfilled" => pend[i].hp.state # "pending"
    /\ last.op = "Try.async" =>
          LET fn == last.cb.fn
          IN /\ last.settles = 1
             /\ last.calls = <<[fn |-> fn, args |-> <<>>]>>
             /\ CASE fn \in Throwers -> Holds("Err", Thrown(fn))
                  [] fn \in Rejects -> Holds("Err", Rejection(fn))
                  [] OTHER -> Holds("Ok", UserResult(fn))

C23_Witness ==
    /\ last.op = "Try.async"
    /\ last.cb.fn = "aS"
    /\ last.hp = Rejected(Prim("nope"))
    /\ Holds("Err", Prim("nope"))

\* C24: a TryInto wrapper is Try applied per call.  The wrapper of
\* TryInto.sync calls fn once with exactly the arguments it was given,
\* never throws, and returns what Try.sync(() => fn(args)) returns; the
\* promise of the wrapper of TryInto.async is never rejected and fulfils
\* with what Try.async(() => fn(args)) fulfils with.  What a call returns
\* depends on its own arguments only, whatever calls came before.
C24_TryInto ==
    /\ last.op = "TryInto.sync" =>
          LET t == Try_sync(<<>>, Thunk(last.arg, last.args))
              w == heap[last.out.val.n]
          IN /\ last.calls = <<[fn |-> last.arg, args |-> last.args]>>
             /\ last.made = 1
             /\ IF last.args = <<Prim("42")>> THEN Holds("Ok", Prim("n42"))
                ELSE Holds("Err", Err("not an integer", ""))
             /\ w.tag = t.heap[1].tag /\ w.data = t.heap[1].data /\ w.ext = t.heap[1].ext
    /\ \A i \in 1..Len(pend) :
          pend[i].op = "TryInto.async" =>
             pend[i].rp.state # "rejected" /\ pend[i].outer.state # "rejected"
    /\ last.op = "TryInto.async" =>
          LET c == Try_async(<<>>, last.cb)
              t == Try_asyncResume(c.heap, [hp |-> PromiseOf(last.cb.fn, last.cb.args)])
              w == heap[last.out.val.n]
          IN /\ last.calls = <<[fn |-> "asyncParse", args |-> last.cb.args]>>
             /\ last.settles = 1
             /\ IF last.cb.args = <<Prim("42")>> THEN Holds("Ok", Prim("n42"))
                ELSE Holds("Err", Err("not an integer", ""))
             /\ w.tag = t.heap[1].tag /\ w.data = t.heap[1].data /\ w.ext = t.heap[1].ext

C24_Witness ==
    /\ last.op = "TryInto.sync"
    /\ last.args = <<Prim("42")>>
    /\ last.out = Ret(Ref(2))
    /\ heap[1].tag = "Err"
    /\ heap[1].data = Err("not an integer", "")
    /\ Holds("Ok", Prim("n42"))

\* two calls had the same outcome: both threw the same error, or both
\* returned a new value, of the same tag, payload and set of methods
SameOutcome(a, b) ==
    /\ a.out = b.out
    /\ Len(a.heap) = Len(b.heap)
    /\ Len(a.heap) > 0 =>
          LET v == a.heap[Len(a.heap)]
              w == b.heap[Len(b.heap)]
          IN v.tag = w.tag /\ v.data = w.data /\ v.ext = w.ext
                /\ Methods(v.ext) = Methods(w.ext)

\* C25: the `instance` of every value is the factory that owns it: what
\* v.instance constructs and parses is what the factory F that made v
\* constructs and parses (the same tags accepted, the same shape, the same
\* methods), also when F is a Result or Option factory.
C25_Instance ==
    \A o \in 1..Len(heap) :
       /\ \A prop \in Props(factory), data \in Data :
            SameOutcome(CallProp(heap, heap[o].instance, prop, data),
                        CallProp(heap, factory, prop, data))
       /\ \A w \in Wires(factory) :
            SameOutcome(CallParse(heap, heap[o].instance, w),
                        CallParse(heap, factory, w))

\* C26: declaring a variant with the reserved name fails: no factory exists
\* whose explicit key list contains `_` (its declaration raised the
\* reserved-tag error), and the `_` property of a factory is its utilities
\* (parse, fromJSON, reviver), never a variant constructor.
C26_ReservedKey ==
    /\ "_" \notin Range(factory.keys)
    /\ Get(factory, "_").kind = "utils"

\* C27: every failure of matchAsync comes through the returned promise.  The
\* call itself returns a promise and never throws; when the map has no
\* handler for the tag and no `_`, the promise rejects with the
\* missing-handler error naming the tag and nothing was called; when the
\* called handler threw, or its promise rejected, the promise rejects with
\* that same error; and the returned promise is settled only once the
\* handler's promise is, with that promise's outcome.
C27_AsyncFailures ==
    /\ last.op = "matchAsyncCall" => last.out.kind = "ret"
    /\ \A i \in 1..Len(pend) :
          (pend[i].hp.state # "none" /\ pend[i].rp.state # "pending") =>
              pend[i].rp = pend[i].hp
    /\ last.op = "matchAsync" =>
          LET v == heap[last.self]
          IN /\ (~Own(last.callbacks, v.tag) /\ ~Own(last.callbacks, "_")) =>
                   /\ last.out.kind = "throw"
                   /\ last.out.val.k = "error"
                   /\ last.out.val.t = v.tag
                   /\ last.calls = <<>>
             /\ (last.calls # <<>> /\ last.calls[1].fn \in Throwers) =>
                   last.out = Throw(Thrown(last.calls[1].fn))
             /\ (last.calls # <<>> /\ last.calls[1].fn \in Rejects) =>
                   /\ last.hp = Rejected(Rejection(last.calls[1].fn))
                   /\ last.out = Throw(Rejection(last.calls[1].fn))

\* the methods that call a function of the caller
Callers == {"match", "matchExhaustive", "if", "ifNot", "map", "mapErr", "andThen",
            "filter", "unwrap_or_else", "ok_or_else"}

\* C28: an exception raised by a function the caller handed to match,
\* matchExhaustive, if, ifNot, map, mapErr, andThen, filter, unwrap_or_else
\* or ok_or_else leaves the call unchanged: the call throws the very value
\* the function threw, builds no value (no Err, no None), and no other
\* function (`_`, the other arm) is called.
C28_Propagates ==
    (last.op \in Callers /\ last.calls # <<>> /\ last.calls[1].fn \in Throwers) =>
        /\ last.out = Throw(Thrown(last.calls[1].fn))
        /\ Len(last.calls) = 1
        /\ "made" \in DOMAIN last => last.made = 0

\* a map on a success threw the Error object its function threw, while
\* the value it was called on is still there
C28_Witness ==
    /\ last.op = "map"
    /\ last.calls # <<>>
    /\ last.calls[1].fn = "tB"
    /\ last.out = Throw(Boom)
    /\ heap[last.self].tag \in {"Ok", "Some"}

C30_Original ==
    factory.adapter = "none" =>
        /\ Len(factory.keys) = 0 =>
              /\ \A prop \in Tags, data \in Data :
                    SameOutcome(CallProp(heap, factory, prop, data),
                                CallProp(heap, DynamicFactory, prop, data))
              /\ \A w \in Wires(factory) :
                    SameOutcome(CallParse(heap, factory, w),
                                CallParse(heap, DynamicFactory, w))
              /\ (last.op = "construct" /\ last.prop # "_") =>
                    /\ last.out = Ret(Ref(Len(heap)))
                    /\ last.made = 1
                    /\ heap[Len(heap)].tag = last.prop
              /\ (last.op = "parse" /\ last.wire.tag # "_") =>
                    /\ last.out = Ret(Ref(Len(heap)))
                    /\ heap[Len(heap)].tag = last.wire.tag
        /\ Len(factory.keys) > 0 =>
              \A prop \in Tags :
                 Get(factory, prop).kind = "ctor" <=> prop \in Range(factory.keys)

\* C30 as amended: the same, except that under the property names the
\* dynamic factory answers itself (toString, valueOf, inspect, constructor)
\* it constructs no value; parse still accepts those tags.
C30_Modes ==
    factory.adapter = "none" =>
        /\ Len(factory.keys) = 0 =>
              /\ \A prop \in Tags, data \in Data :
                    SameOutcome(CallProp(heap, factory, prop, data),
                                CallProp(heap, DynamicFactory, prop, data))
              /\ \A w \in Wires(factory) :
                    SameOutcome(CallParse(heap, factory, w),
                                CallParse(heap, DynamicFactory, w))
              /\ (last.op = "construct" /\ last.prop \notin BUILTINS \cup {"_"}) =>
                    /\ last.out = Ret(Ref(Len(heap)))
                    /\ last.made = 1
                    /\ heap[Len(heap)].tag = last.prop
              /\ (last.op = "construct" /\ last.prop \in BUILTINS) =>
                    /\ last.made = 0
                    /\ last.out.val.k # "ref"
              /\ (last.op = "parse" /\ last.wire.tag # "_") =>
                    /\ last.out = Ret(Ref(Len(heap)))
                    /\ heap[Len(heap)].tag = last.wire.tag
        /\ Len(factory.keys) > 0 =>
              \A prop \in Tags :
                 Get(factory, prop).kind = "ctor" <=> prop \in Range(factory.keys)

\* a factory declared with an explicit empty key list has constructed a
\* value under a name nobody declared, after parsing one
C30_Witness ==
    /\ factory = IronEnum([given |-> TRUE, keys |-> <<>>])
    /\ last.op = "construct"
    /\ last.prop = "B"
    /\ last.made = 1
    /\ Len(heap) = 2
    /\ heap[2].tag = "B"
====
